---- MODULE Spec2Model ----
(***************************************************************************)
(* Model of the servercommand repository: the FastAPI handler of POST      *)
(* /jikkou (app/main.py; the route and the JSON keys are Japanese in the   *)
(* source and are written here in ASCII), the RQ task run_command          *)
(* (app/tasks.py) with its worker (worker.py), and the settings            *)
(* (app/settings.py).                                                      *)
(*                                                                         *)
(* Source name              name used here                                 *)
(*   handler "jikkou"         Jikkou...                                    *)
(*   field "komando"          cmd                                          *)
(*   field "taimuauto-byou"   timeout                                      *)
(*   query "keishiki"         fmt                                          *)
(*   key "shuuryou koodo"     KeyExitCode                                  *)
(*   key "hyoujun shutsuryoku" KeyStdout                                   *)
(*   key "hyoujun eraa"       KeyStderr                                    *)
(***************************************************************************)
EXTENDS Integers, Sequences, FiniteSets, TLC

VARIABLES pc, req, proc, resp, stepIndex, completed, verdict

vars == <<pc, req, proc, resp, stepIndex, completed, verdict>>
httpVars == <<pc, req, proc, resp>>
tutorialVars == <<stepIndex, completed, verdict>>

(***************************************************************************)
(* Bounds of the model.                                                    *)
(***************************************************************************)
\* Number of requests in flight at once.
NumRequests == 2
\* Largest truncation-marker size a capped stream is allowed to add.
MaxMarkerBytes == 64

Reqs == 1..NumRequests

(***************************************************************************)
(* Program constants.                                                      *)
(***************************************************************************)
DefaultTimeout == 5
MinTimeout == 1
MaxTimeout == 60
RunCommandTimeout == 5
TimeoutExitCode == -1
max_bytes == 200000

(***************************************************************************)
(* Optional values: <<>> is null / absent, <<v>> is the value v.           *)
(***************************************************************************)
Null == <<>>
Some(v) == <<v>>

(***************************************************************************)
(* Text values.  A text is its UTF-8 size and the sequence of the pieces   *)
(* it was formatted from, so that "the message contains the timeout" is    *)
(* decided by the formatting and not assumed.                              *)
(***************************************************************************)
EmptyText == [size |-> 0, parts |-> <<>>]
Lit(s, n) == [size |-> n, parts |-> <<s>>]
Cat(a, b) == [size |-> a.size + b.size, parts |-> a.parts \o b.parts]

RECURSIVE Digits(_)
Digits(n) == IF n < 0 THEN 1 + Digits(-n)
             ELSE IF n < 10 THEN 1 ELSE 1 + Digits(n \div 10)

\* str(n) / f"{n}"
IntText(n) == [size |-> Digits(n), parts |-> <<ToString(n)>>]

Contains(t, s) == \E i \in 1..Len(t.parts) : t.parts[i] = s

(***************************************************************************)
(* The commands the model submits, and what /bin/sh does with each.        *)
(***************************************************************************)
CmdEmpty == ""
CmdEcho == "echo Hello"
CmdSleep3 == "sleep 3"
CmdSleep100 == "sleep 100"
CmdHup == "kill -HUP $$"
CmdNul == "a\\0b"
CmdBadUtf8 == "printf '\\377'"
CmdCdUp == "cd .. && pwd"
CmdBig == "yes | head -c 400000"
CmdLsMissing == "ls /nonexistent"

Commands == {CmdEmpty, CmdEcho, CmdSleep3, CmdSleep100, CmdHup, CmdNul,
             CmdBadUtf8, CmdCdUp, CmdBig, CmdLsMissing}
BackgroundCommands == {CmdEcho, CmdSleep100}

\* Popen refuses an argument holding a NUL byte (ValueError).
HasNul(cmd) == cmd = CmdNul

\* Seconds the command needs to end by itself.
Duration(cmd) == CASE cmd = CmdSleep3 -> 3
                   [] cmd = CmdSleep100 -> 100
                   [] OTHER -> 0

\* Popen.returncode: the shell's exit status, or -N when signal N killed it.
ReturnCode(cmd) == CASE cmd = CmdHup -> -1
                     [] cmd = CmdLsMissing -> 2
                     [] OTHER -> 0

\* The directory the server process runs in; subprocess.run is given no cwd.
ServerCwd == <<"srv", "app">>

Parent(path) == IF path = <<>> THEN <<>> ELSE SubSeq(path, 1, Len(path) - 1)

\* The directory in which the shell runs the command's last program.
ShellCwd(cmd, cwd) == IF cmd = CmdCdUp THEN Parent(cwd) ELSE cwd

PathBytes(path) == IF path = <<>> THEN 1 ELSE Len(path) * 4

StdoutBytes(cmd, cwd) == CASE cmd = CmdEcho -> 6
                           [] cmd = CmdBadUtf8 -> 1
                           [] cmd = CmdCdUp -> PathBytes(ShellCwd(cmd, cwd)) + 1
                           [] cmd = CmdBig -> 2 * max_bytes
                           [] OTHER -> 0

StderrBytes(cmd) == IF cmd = CmdLsMissing THEN 60 ELSE 0

\* text=True decodes the captured bytes strictly: invalid UTF-8 raises.
InvalidUtf8Output(cmd) == cmd = CmdBadUtf8

StdoutText(cmd, cwd) ==
    IF StdoutBytes(cmd, cwd) = 0 THEN EmptyText
    ELSE Lit("stdout", StdoutBytes(cmd, cwd))

StderrText(cmd) ==
    IF StderrBytes(cmd) = 0 THEN EmptyText ELSE Lit("stderr", StderrBytes(cmd))

(***************************************************************************)
(* CommandRequest: the request body and its validation.                    *)
(***************************************************************************)
\* Field(5, ge=1, le=60): the value the handler sees for a body's timeout.
TimeoutOf(body) == IF body.timeout = Null THEN DefaultTimeout
                   ELSE body.timeout[1]

\* CommandRequest with the upper bound of the timeout left out.
CommandRequestNoUpperBound(body) ==
    /\ body.cmd # Null
    /\ body.timeout # Null => body.timeout[1] >= MinTimeout

\* pydantic accepts the body iff the command is present (any string, the
\* empty one included: Field(...) sets no min_length) and the timeout, when
\* given, satisfies ge=1 and le=60.
CommandRequest(body) ==
    /\ body.cmd # Null
    /\ body.timeout # Null =>
          /\ body.timeout[1] >= MinTimeout
          /\ body.timeout[1] <= MaxTimeout

Formats == {"json", "preview", "download"}
TimeoutInputs == {Null, Some(0), Some(1), Some(60), Some(61)}
CommandInputs == {Null} \cup {Some(c) : c \in Commands}

\* Request 1 ranges over every input; the other requests are concurrent
\* traffic over a small set (the handler shares no state between requests).
Bodies(r) ==
    IF r = 1
    THEN [cmd : CommandInputs, timeout : TimeoutInputs]
    ELSE [cmd : {Some(c) : c \in BackgroundCommands}, timeout : {Null}]

FormatsOf(r) == IF r = 1 THEN Formats ELSE {"json"}

(***************************************************************************)
(* Responses.                                                              *)
(***************************************************************************)
KeyExitCode == "shuuryou_koodo"
KeyStdout == "hyoujun_shutsuryoku"
KeyStderr == "hyoujun_eraa"

NoResp == [kind |-> "none", keys |-> {}, code |-> Null, out |-> EmptyText,
           err |-> EmptyText, body |-> EmptyText, filename |-> "",
           exc |-> ""]

\* f"{timeout}<16 Japanese characters, 48 bytes>"
TimeoutBody(t) == Cat(IntText(t), Lit("byou wo koete taimuauto shimashita.", 48))

\* f"shuuryou koodo: {rc}\nhyoujun shutsuryoku:\n{out}\nhyoujun eraa:\n{err}"
ResultBody(rc, out, err) ==
    Cat(Lit("shuuryou koodo: ", 17),
    Cat(IntText(rc),
    Cat(Lit("\\nhyoujun shutsuryoku:\\n", 18),
    Cat(out,
    Cat(Lit("\\nhyoujun eraa:\\n", 18), err)))))

JsonResponse(code, out, err) ==
    [NoResp EXCEPT !.kind = "json",
                   !.keys = {KeyExitCode, KeyStdout, KeyStderr},
                   !.code = Some(code), !.out = out, !.err = err]

TextResponse(fmt, body, filename) ==
    [NoResp EXCEPT !.kind = fmt, !.body = body,
                   !.filename = IF fmt = "download" THEN filename ELSE ""]

\* The handler's except branch (main.py 51-61).
JikkouTimeoutResponse(fmt, t) ==
    IF fmt \in {"download", "preview"}
    THEN TextResponse(fmt, TimeoutBody(t), "timeout.txt")
    ELSE JsonResponse(TimeoutExitCode, EmptyText, TimeoutBody(t))

\* The handler's normal return (main.py 64-80).
JikkouResultResponse(fmt, rc, out, err) ==
    IF fmt \in {"download", "preview"}
    THEN TextResponse(fmt, ResultBody(rc, out, err), "result.txt")
    ELSE JsonResponse(rc, out, err)

\* An exception the handler does not catch leaves it: no result is built.
Uncaught(exc) == [NoResp EXCEPT !.kind = "uncaught", !.exc = exc]

\* FastAPI's answer to a body CommandRequest rejects.
ValidationError == [NoResp EXCEPT !.kind = "validation_error"]

\* run_command's normal return (tasks.py 9).
RunCommandResult(rc, out, err) ==
    [NoResp EXCEPT !.kind = "rq_result",
                   !.keys = {"stdout", "stderr", "returncode"},
                   !.code = Some(rc), !.out = out, !.err = err]

\* run_command's except branch (tasks.py 10-11): {"error": str(e)}.
RunCommandError(msg, exc) ==
    [NoResp EXCEPT !.kind = "rq_result", !.keys = {"error"},
                   !.body = msg, !.exc = exc]

\* str(TimeoutExpired): "Command '<cmd>' timed out after <t> seconds"
TimeoutExpiredText(cmd, t) ==
    Cat(Lit("Command '", 9),
    Cat(Lit(cmd, Len(cmd)),
    Cat(Lit("' timed out after ", 18),
    Cat(IntText(t), Lit(" seconds", 8)))))

ExceptionText(exc) == Lit(exc, Len(exc))

(***************************************************************************)
(* State.                                                                  *)
(*   pc[r]    where request r is: idle, queued (an RQ job waiting for the  *)
(*            worker), accepted (the handler or task is entered), running  *)
(*            (inside subprocess.run), done                                *)
(*   req[r]   the request: its entry point, body and format                *)
(*   proc[r]  the subprocess started for r, if any                         *)
(*   resp[r]  what the caller of r got                                     *)
(***************************************************************************)
NoReq == [entry |-> "none", body |-> [cmd |-> Null, timeout |-> Null],
          fmt |-> "json"]

NoProc == [started |-> FALSE, timeout |-> 0, cwd |-> <<>>, ranIn |-> <<>>,
           state |-> "none"]

CmdOf(r) == req[r].body.cmd[1]

\* The timeout subprocess.run is called with.
RunTimeout(r) == IF req[r].entry = "rq" THEN RunCommandTimeout
                 ELSE TimeoutOf(req[r].body)

\* What the caller gets when subprocess.run raises exc with text msg:
\* the handler catches only TimeoutExpired, run_command catches Exception.
Raised(r, exc, msg) ==
    IF req[r].entry = "rq" THEN RunCommandError(msg, exc) ELSE Uncaught(exc)

\* POST /jikkou arrives: FastAPI validates the body against CommandRequest
\* and calls the handler only when it is valid.
PostJikkou(r) ==
    /\ pc[r] = "idle"
    /\ \E body \in Bodies(r), fmt \in FormatsOf(r) :
          /\ req' = [req EXCEPT ![r] = [entry |-> "http", body |-> body,
                                        fmt |-> fmt]]
          /\ IF CommandRequest(body)
             THEN /\ pc' = [pc EXCEPT ![r] = "accepted"]
                  /\ resp' = resp
             ELSE /\ pc' = [pc EXCEPT ![r] = "done"]
                  /\ resp' = [resp EXCEPT ![r] = ValidationError]
    /\ UNCHANGED <<proc, tutorialVars>>

\* A job run_command(command) is put on the queue.
EnqueueRunCommand(r) ==
    /\ pc[r] = "idle"
    /\ \E c \in (IF r = 1 THEN Commands ELSE BackgroundCommands) :
          req' = [req EXCEPT ![r] = [entry |-> "rq",
                                     body |-> [cmd |-> Some(c),
                                               timeout |-> Null],
                                     fmt |-> "json"]]
    /\ pc' = [pc EXCEPT ![r] = "queued"]
    /\ UNCHANGED <<proc, resp, tutorialVars>>

\* The one worker takes the next job when it is not running another.
WorkerWork(r) ==
    /\ pc[r] = "queued"
    /\ \A o \in Reqs \ {r} :
          req[o].entry = "rq" => pc[o] \notin {"accepted", "running"}
    /\ pc' = [pc EXCEPT ![r] = "accepted"]
    /\ UNCHANGED <<req, proc, resp, tutorialVars>>

\* Popen: the shell is started, or an exception is raised before any process
\* runs (a NUL byte in the command, no /bin/sh).
Popen(r) ==
    /\ \E shellOk \in BOOLEAN :
          IF HasNul(CmdOf(r)) \/ ~shellOk
          THEN LET exc == IF HasNul(CmdOf(r)) THEN "ValueError"
                          ELSE "FileNotFoundError"
               IN /\ pc' = [pc EXCEPT ![r] = "done"]
                  /\ resp' = [resp EXCEPT
                                ![r] = Raised(r, exc, ExceptionText(exc))]
                  /\ proc' = proc
          ELSE /\ pc' = [pc EXCEPT ![r] = "running"]
               /\ proc' = [proc EXCEPT
                             ![r] = [started |-> TRUE,
                                     timeout |-> RunTimeout(r),
                                     cwd |-> ServerCwd,
                                     ranIn |-> ShellCwd(CmdOf(r), ServerCwd),
                                     state |-> "running"]]
               /\ resp' = resp
    /\ UNCHANGED <<req, tutorialVars>>

\* The start of subprocess.run, were it made under a lock held for as long
\* as a command runs.
SubprocessRunStartLocked(r) ==
    /\ pc[r] = "accepted"
    /\ \A o \in Reqs \ {r} : pc[o] # "running"
    /\ Popen(r)

\* The handler (or run_command) calls subprocess.run: no lock is taken and
\* nothing is shared with the other requests.
SubprocessRunStart(r) ==
    /\ pc[r] = "accepted"
    /\ Popen(r)

\* The response for a command that ended within the timeout.
ExitResponse(r) ==
    LET cmd == CmdOf(r)
        rc  == ReturnCode(cmd)
        out == StdoutText(cmd, proc[r].cwd)
        err == StderrText(cmd)
    IN IF InvalidUtf8Output(cmd)
       THEN Raised(r, "UnicodeDecodeError",
                   ExceptionText("UnicodeDecodeError"))
       ELSE IF req[r].entry = "rq" THEN RunCommandResult(rc, out, err)
       ELSE JikkouResultResponse(req[r].fmt, rc, out, err)

\* The command ends by itself within the timeout.
SubprocessRunExit(r) ==
    /\ pc[r] = "running"
    /\ Duration(CmdOf(r)) <= proc[r].timeout
    /\ proc' = [proc EXCEPT ![r].state = "exited"]
    /\ resp' = [resp EXCEPT ![r] = ExitResponse(r)]
    /\ pc' = [pc EXCEPT ![r] = "done"]
    /\ UNCHANGED <<req, tutorialVars>>

\* The response for a command that was killed at the timeout.
TimeoutResponse(r) ==
    IF req[r].entry = "rq"
    THEN RunCommandError(TimeoutExpiredText(CmdOf(r), RunCommandTimeout),
                         "TimeoutExpired")
    ELSE JikkouTimeoutResponse(req[r].fmt, TimeoutOf(req[r].body))

\* The timeout fires: subprocess.run kills the shell and raises
\* TimeoutExpired.
SubprocessRunTimeout(r) ==
    /\ pc[r] = "running"
    /\ Duration(CmdOf(r)) >= proc[r].timeout
    /\ proc' = [proc EXCEPT ![r].state = "killed"]
    /\ resp' = [resp EXCEPT ![r] = TimeoutResponse(r)]
    /\ pc' = [pc EXCEPT ![r] = "done"]
    /\ UNCHANGED <<req, tutorialVars>>

(***************************************************************************)
(* Tutorial state machine (specification section 4.4; the repository's     *)
(* sources hold no tutorial code).  A submitted text is a sequence of      *)
(* tokens in which " " is a whitespace character.                          *)
(***************************************************************************)
TutorialSteps ==
    << [instruction |-> "move to the workspace", expected |-> "cd /tmp"],
       [instruction |-> "make a directory", expected |-> "mkdir test"],
       [instruction |-> "enter the directory", expected |-> "cd test"] >>

LastStep == Len(TutorialSteps) - 1

RECURSIVE TrimLeft(_)
TrimLeft(t) == IF t # <<>> /\ Head(t) = " " THEN TrimLeft(Tail(t)) ELSE t

RECURSIVE TrimRight(_)
TrimRight(t) == IF t # <<>> /\ t[Len(t)] = " "
                THEN TrimRight(SubSeq(t, 1, Len(t) - 1)) ELSE t

Trim(t) == TrimRight(TrimLeft(t))

TutorialCores == {"cd /tmp", "mkdir test", "cd test", "cd  /tmp", "ls",
                  "cd nonexistent", "pwd", "CD /tmp"}

Pad(n) == [i \in 1..n |-> " "]

TutorialInputs ==
    {Pad(a) \o <<c>> \o Pad(b) : a \in 0..1, b \in 0..1, c \in TutorialCores}

NoVerdict == [op |-> "none", matched |-> FALSE, expected |-> "", hint |-> "",
              completed |-> FALSE, submitted |-> <<>>, at |-> 0]

TutorialStart ==
    /\ stepIndex' = Some(0)
    /\ completed' = FALSE
    /\ verdict' = [NoVerdict EXCEPT !.op = "start",
                                    !.expected = TutorialSteps[1].expected,
                                    !.hint = TutorialSteps[1].instruction]
    /\ UNCHANGED httpVars

\* Advance without the stop at the final step.
AdvanceUnbounded(i, matched) == IF matched THEN i + 1 ELSE i

\* The index after a submit at index i: a match advances it, but never past
\* the final step.
Advance(i, matched) == IF matched /\ i < LastStep THEN i + 1 ELSE i

TutorialSubmit(text) ==
    LET i == IF stepIndex = Null THEN 0 ELSE stepIndex[1]
        step == TutorialSteps[i + 1]
        matched == Trim(text) = <<step.expected>>
        j == Advance(i, matched)
        done == completed \/ (matched /\ i = LastStep)
    IN /\ stepIndex' = Some(j)
       /\ completed' = done
       /\ verdict' = [op |-> "submit", matched |-> matched,
                      expected |-> step.expected,
                      hint |-> IF ~matched THEN step.expected
                               ELSE IF i = LastStep THEN ""
                               ELSE TutorialSteps[j + 1].instruction,
                      completed |-> done, submitted |-> text, at |-> i]
       /\ UNCHANGED httpVars

TutorialReset ==
    /\ stepIndex' = Null
    /\ completed' = FALSE
    /\ verdict' = [NoVerdict EXCEPT !.op = "reset"]
    /\ UNCHANGED httpVars

(***************************************************************************)
(* Specifications.                                                         *)
(***************************************************************************)
Init ==
    /\ pc = [r \in Reqs |-> "idle"]
    /\ req = [r \in Reqs |-> NoReq]
    /\ proc = [r \in Reqs |-> NoProc]
    /\ resp = [r \in Reqs |-> NoResp]
    /\ stepIndex = Null
    /\ completed = FALSE
    /\ verdict = NoVerdict

Next ==
    \E r \in Reqs :
        \/ PostJikkou(r)
        \/ EnqueueRunCommand(r)
        \/ WorkerWork(r)
        \/ SubprocessRunStart(r)
        \/ SubprocessRunExit(r)
        \/ SubprocessRunTimeout(r)

Spec == Init /\ [][Next]_vars

TutorialNext ==
    \/ TutorialStart
    \/ \E text \in TutorialInputs : TutorialSubmit(text)
    \/ TutorialReset

TutorialSpec == Init /\ [][TutorialNext]_vars

\* Every request that has entered the handler or the task gets to its end:
\* the steps of one request wait for nothing but the process and its timeout.
FairSpec ==
    /\ Spec
    /\ \A r \in Reqs :
          /\ WF_vars(WorkerWork(r))
          /\ WF_vars(SubprocessRunStart(r))
          /\ WF_vars(SubprocessRunExit(r) \/ SubprocessRunTimeout(r))

EveryRequestEnds ==
    \A r \in Reqs : (pc[r] \in {"queued", "accepted", "running"}) ~> (pc[r] = "done")

(***************************************************************************)
(* Claims.                                                                 *)
(***************************************************************************)

\* C1: a command that exceeds its timeout yields a null exit code, an empty
\* standard output and a standard error holding the timeout value, at every
\* entry point.
C1_TimeoutResult ==
    \A r \in Reqs :
        (pc[r] = "done" /\ proc[r].state = "killed") =>
            /\ resp[r].code = Null
            /\ resp[r].out = EmptyText
            /\ Contains(resp[r].err, ToString(proc[r].timeout))

\* C2: a failure to launch or run the command other than a timeout comes
\* back as a result with a null exit code and a message in standard error,
\* never as an uncaught exception.
C2_FailureIsResult ==
    \A r \in Reqs :
        (/\ pc[r] = "done"
         /\ resp[r].kind # "validation_error"
         /\ \/ ~proc[r].started
            \/ proc[r].state = "exited" /\ InvalidUtf8Output(CmdOf(r))) =>
            /\ resp[r].kind # "uncaught"
            /\ resp[r].code = Null
            /\ resp[r].err.size > 0

\* C3 (as stated): a requested timeout below 1 or above 60 is clamped into
\* [1,60] and the command is run with the clamped value.
C3_OutOfRangeClamped ==
    \A r \in Reqs :
        (/\ req[r].entry = "http"
         /\ req[r].body.cmd # Null
         /\ req[r].body.timeout # Null) =>
            LET t == req[r].body.timeout[1]
                clamped == IF t < 1 THEN 1 ELSE IF t > 60 THEN 60 ELSE t
            IN /\ resp[r].kind # "validation_error"
               /\ proc[r].started => proc[r].timeout = clamped

\* C3 (amended): every process is started with a timeout between 1 and 60,
\* a request that gives none runs with 5, and a request whose timeout is
\* below 1 or above 60 is rejected as a validation failure with no process
\* started for it.
C3_TimeoutInRangeOrRejected ==
    \A r \in Reqs :
        /\ proc[r].started =>
              /\ proc[r].timeout >= 1
              /\ proc[r].timeout <= 60
              /\ req[r].body.timeout = Null => proc[r].timeout = 5
              /\ req[r].body.timeout # Null =>
                    proc[r].timeout = req[r].body.timeout[1]
        /\ (/\ req[r].entry = "http"
            /\ req[r].body.timeout # Null
            /\ (req[r].body.timeout[1] < 1 \/ req[r].body.timeout[1] > 60)) =>
              /\ pc[r] = "done"
              /\ resp[r].kind = "validation_error"
              /\ ~proc[r].started

\* C3 witness: a request with a command and timeout 61 was rejected, and
\* another request, which gave no timeout, has a process started with 5.
C3_Witness ==
    /\ req[1].entry = "http"
    /\ req[1].body = [cmd |-> Some(CmdEcho), timeout |-> Some(61)]
    /\ resp[1].kind = "validation_error"
    /\ proc[2].started
    /\ req[2].body.timeout = Null
    /\ proc[2].timeout = 5

\* C4: no subprocess is ever started for a request whose command text is
\* empty.
C4_EmptyCommandRejected ==
    \A r \in Reqs :
        (req[r].entry = "http" /\ req[r].body.cmd = Some(CmdEmpty)) =>
            ~proc[r].started

\* C5: the returned standard output and standard error are each at most
\* max_bytes plus the truncation marker long.
C5_StreamsCapped ==
    \A r \in Reqs :
        pc[r] = "done" =>
            /\ resp[r].out.size <= max_bytes + MaxMarkerBytes
            /\ resp[r].err.size <= max_bytes + MaxMarkerBytes

\* C6: no command is executed in a directory outside the sandbox root (the
\* directory commands are started in), and a command whose cd leaves the
\* root is answered with a failure.
C6_SandboxConfinement ==
    LET root == ServerCwd
        Within(path) == /\ Len(path) >= Len(root)
                        /\ SubSeq(path, 1, Len(root)) = root
    IN \A r \in Reqs :
          proc[r].started =>
              /\ Within(proc[r].cwd)
              /\ Within(proc[r].ranIn)
              /\ (pc[r] = "done" /\ ~Within(ShellCwd(CmdOf(r), proc[r].cwd)))
                    => resp[r].code # Some(0)

\* C7: a submit of the exact expected command of step i moves the machine
\* to step i+1, or at the last step makes it report completed; the step
\* index never passes the final step.
C7_TutorialProgression ==
    [][ /\ stepIndex' # Null => stepIndex'[1] <= LastStep
        /\ (verdict'.op = "submit" /\ tutorialVars' # tutorialVars) =>
              LET i == IF stepIndex = Null THEN 0 ELSE stepIndex[1]
                  exact == verdict'.submitted = <<TutorialSteps[i + 1].expected>>
              IN exact =>
                    /\ verdict'.matched
                    /\ i < LastStep =>
                          /\ stepIndex' = Some(i + 1)
                          /\ ~completed' /\ ~verdict'.completed
                    /\ i = LastStep =>
                          /\ stepIndex' = Some(LastStep)
                          /\ completed' /\ verdict'.completed ]_vars

\* C7 witness: the last step's expected command was submitted at the last
\* step and the machine reports completed.
C7_Witness ==
    /\ completed
    /\ stepIndex = Some(LastStep)
    /\ verdict.op = "submit"
    /\ verdict.at = LastStep
    /\ verdict.submitted = <<TutorialSteps[LastStep + 1].expected>>
    /\ verdict.completed

\* C8: whatever the other requests are doing, a request to /jikkou can be
\* received, can start its own subprocess, and a running one can get its
\* result.
C8_NoBlocking ==
    \A r \in Reqs :
        /\ pc[r] = "idle" => ENABLED PostJikkou(r)
        /\ (pc[r] = "accepted" /\ req[r].entry = "http") =>
              ENABLED SubprocessRunStart(r)
        /\ pc[r] = "running" =>
              ENABLED (SubprocessRunExit(r) \/ SubprocessRunTimeout(r))

\* C8 witness: two requests to /jikkou each have their own subprocess
\* running at the same time.
C8_Witness ==
    /\ req[1].entry = "http" /\ req[2].entry = "http"
    /\ pc[1] = "running" /\ pc[2] = "running"
    /\ proc[1].state = "running" /\ proc[2].state = "running"

\* C9: every request that reached the handler or the task ends either with
\* the result of a command that ended by itself or with the timeout result
\* of a command that was killed.
C9_ResultOrTimeout ==
    \A r \in Reqs :
        (pc[r] = "done" /\ resp[r].kind # "validation_error") =>
            /\ proc[r].state \in {"exited", "killed"}
            /\ resp[r].kind # "uncaught"
            /\ resp[r].exc \in {"", "TimeoutExpired"}

\* C10: in the JSON form of the /jikkou response the exit code is -1 if and
\* only if the command was killed at its timeout.
C10_MinusOneIffTimeout ==
    \A r \in Reqs :
        (pc[r] = "done" /\ resp[r].kind = "json") =>
            (resp[r].code = Some(-1) <=> proc[r].state = "killed")

====
